---- MODULE Spec2Model ----
(***************************************************************************)
(* Model of server/server.js: the in-memory puzzle session (gameState),    *)
(* the player registry, the WebSocket connection handlers and the          *)
(* messages each handler sends.  One action per handler; a handler runs    *)
(* to completion (Node's single-threaded event loop).                      *)
(***************************************************************************)
EXTENDS Integers, Sequences, FiniteSets, TLC

\* ---------------------------------------------------------------- bounds
MaxConns == 2      \* connections ever accepted (each draws a fresh uuid)
MaxSteps == 2      \* cap on the steps counters of a round, added up
MaxTime  == 1      \* cap on the clock Date.now() reads
MaxBoard == 4      \* players in a registry handed to the leaderboard

\* ------------------------------------------------------ inputs (small sets)
\* Math.random() outcomes of shufflePuzzle: the nine draws are either all 0
\* or 3 on the cells of RandTiles and 0 elsewhere; the forced cell is 8.
RandTiles == {0}
ForcedTiles == {8}
\* data.tileIndex values a client sends: 0 and 8 address cells, 9 is an
\* integer past the end of the nine-cell array.
TileInputs == {0, 8, 9}
Filenames == {"a.png"}
Names == {"name0"}
\* player.time of a Finished player and player.steps of a Playing one, as
\* the leaderboard is handed them
BoardTimes == {80, 120}
BoardSteps == {2, 5}

\* ------------------------------------------------------------ JS values
NaN    == -1       \* the number NaN (cells otherwise hold 0..3)
Null   == -1       \* null in a timestamp field (timestamps are >= 0)
NullId == 0        \* null / undefined in a player id (uuids are 1, 2, ...)
NoUrl  == <<>>     \* imageUrl: null

Tiles == 0..8

\* A JS array: its length and the elements present (an index below length
\* that is absent is a hole).  Keys are non-negative integers.
MkArray(f) == [length |-> Cardinality(DOMAIN f), elems |-> f]

correctRotation == MkArray([i \in Tiles |-> 0])

\* a.every((val, i) => val === b[i]); every() skips holes, NaN === x is false
arraysEqual(a, b) ==
    \A i \in DOMAIN a.elems :
        /\ a.elems[i] # NaN
        /\ i \in DOMAIN b.elems
        /\ a.elems[i] = b.elems[i]

\* variant of Rotated: the % 4 is missing
RotatedNoWrap(a, k) ==
    IF k \in DOMAIN a.elems /\ a.elems[k] # NaN THEN a.elems[k] + 1 ELSE NaN

\* (puzzle[k] + 1) % 4; undefined + 1 and NaN + 1 are NaN
Rotated(a, k) ==
    IF k \in DOMAIN a.elems /\ a.elems[k] # NaN THEN (a.elems[k] + 1) % 4 ELSE NaN

\* puzzle[k] = v; writing at or past length grows the array
ArraySet(a, k, v) ==
    [length |-> IF k >= a.length THEN k + 1 ELSE a.length,
     elems  |-> [i \in (DOMAIN a.elems) \cup {k} |->
                    IF i = k THEN v ELSE a.elems[i]]]

\* variant of shufflePuzzle: the all-zero outcome is returned as it is
shufflePuzzleNoForce(d, f) == MkArray(d)

\* shufflePuzzle with its random draws made explicit: d is the nine
\* Math.random()*4 draws, f the Math.random()*9 draw of the forced cell.
shufflePuzzle(d, f) ==
    IF \A i \in Tiles : d[i] = 0
    THEN MkArray([d EXCEPT ![f] = 1])
    ELSE MkArray(d)

Draws == { [i \in Tiles |-> 0],
           [i \in Tiles |-> IF i \in RandTiles THEN 3 ELSE 0] }


\* ---------------------------------------------------------------- state
VARIABLES
    gameState,   \* status, image, imageUrl, players, gameStartTime
    clients,     \* wss.clients: connection uuid -> [playerId, readyState]
    nextId,      \* the uuid the next connection draws
    now,         \* what Date.now() reads
    alive,       \* FALSE once an uncaught exception has ended the process
    out,         \* the sends of the handler that ran last, in order
    roundPuzzle, \* history: each player's cells when its puzzle was generated
    rotations,   \* history: per player and cell, rotations applied since then
    gameEnds,    \* history: gameEnd broadcasts since the round started
    last,        \* history: the event handled last and the player id it named
    prevStatus   \* history: each player's status before that event

vars == <<gameState, clients, nextId, now, alive, out,
          roundPuzzle, rotations, gameEnds, last, prevStatus>>

Players == gameState.players
Ids == DOMAIN gameState.players

NoPlayers == [p \in {} |-> 0]

initialGameState ==
    [status |-> "waiting", image |-> NoUrl, imageUrl |-> NoUrl,
     players |-> NoPlayers, gameStartTime |-> Null]

\* ------------------------------------------------------- connection fanout
\* A send is the message with the set of connections it was written to.
Open(cl) == {c \in DOMAIN cl : cl[c].readyState = "OPEN"}

\* broadcast(data) over the client set cl
broadcast(cl, data) == [data EXCEPT !.to = Open(cl)]

\* variant of sendToPlayer: the playerId test is missing
sendToPlayerAll(cl, playerId, data) == [data EXCEPT !.to = Open(cl)]

\* sendToPlayer(playerId, data) over the client set cl
sendToPlayer(cl, playerId, data) ==
    [data EXCEPT !.to = {c \in Open(cl) : cl[c].playerId = playerId}]

\* JSON.stringify of an array: NaN and holes are written as null
jsonArray(a) ==
    [i \in 0..(a.length - 1) |->
        IF i \in DOMAIN a.elems /\ a.elems[i] # NaN THEN a.elems[i] ELSE Null]

\* ------------------------------------------------------------ leaderboard
RECURSIVE SeqOf(_)
\* Map iteration order: insertion order, which is ascending uuid here
SeqOf(S) ==
    IF S = {} THEN <<>>
    ELSE LET m == CHOOSE x \in S : \A y \in S : x <= y
         IN  <<m>> \o SeqOf(S \ {m})

summary(p) ==
    [id |-> p.id, name |-> p.name, status |-> p.status, time |-> p.time,
     steps |-> p.steps, finishTime |-> p.finishTime]

\* variant of compare: the two tests that put a Finished player first are missing
compareNoTiers(a, b) ==
    IF a.status = "finished" /\ b.status = "finished" THEN a.time - b.time
    ELSE a.steps - b.steps

\* the comparator handed to sort()
compare(a, b) ==
    IF a.status = "finished" /\ b.status = "finished" THEN a.time - b.time
    ELSE IF a.status = "finished" THEN -1
    ELSE IF b.status = "finished" THEN 1
    ELSE a.steps - b.steps

Front(s) == SubSeq(s, 1, Len(s) - 1)
Last(s) == s[Len(s)]

RECURSIVE insert(_, _)
insert(s, x) ==
    IF s = <<>> THEN <<x>>
    ELSE IF compare(Last(s), x) > 0
         THEN Append(insert(Front(s), x), Last(s))
         ELSE Append(s, x)

RECURSIVE sort(_)
\* Array.prototype.sort is stable
sort(s) == IF s = <<>> THEN <<>> ELSE insert(sort(Front(s)), Last(s))

leaderboard(players) ==
    LET order == SeqOf(DOMAIN players)
    IN  sort([i \in 1..Len(order) |-> summary(players[order[i]])])

\* broadcastLeaderboard() with registry `players` and client set cl
broadcastLeaderboard(cl, players) ==
    broadcast(cl, [type |-> "leaderboard", to |-> {}, players |-> leaderboard(players)])

Event(type, playerId) == [type |-> type, playerId |-> playerId]

\* ------------------------------------------------------------------ Init
Init ==
    /\ gameState = initialGameState
    /\ clients = NoPlayers
    /\ nextId = 1
    /\ now = 0
    /\ alive = TRUE
    /\ out = <<>>
    /\ roundPuzzle = NoPlayers
    /\ rotations = NoPlayers
    /\ gameEnds = 0
    /\ last = Event("none", NullId)
    /\ prevStatus = NoPlayers


\* ------------------------------------------------------- handler pieces
\* variant of newPlayer: the record starts as Playing
newPlayerAsPlaying(id, name, pz) ==
    [id |-> id, name |-> name, status |-> "playing", time |-> 0, steps |-> 0,
     startTime |-> Null, finishTime |-> Null, puzzle |-> pz]

\* the record gameState.players.set() stores for a new player connection
newPlayer(id, name, pz) ==
    [id |-> id, name |-> name, status |-> "joined", time |-> 0, steps |-> 0,
     startTime |-> Null, finishTime |-> Null, puzzle |-> pz]

\* variant of startAccepted: the imageUrl test is missing
startAcceptedAlways(gs) == TRUE

\* startGame: if (gameState.imageUrl)
startAccepted(gs) == gs.imageUrl # NoUrl

\* variant of resetPlayer: a Finished player is left as it is
resetPlayerUnlessFinished(player, t, pz) ==
    IF player.status = "finished" THEN player
    ELSE [player EXCEPT !.status = "playing", !.startTime = t, !.time = 0,
                        !.steps = 0, !.finishTime = Null, !.puzzle = pz]

\* variant of resetPlayer: time and finishTime are not cleared
resetPlayerKeepTime(player, t, pz) ==
    [player EXCEPT !.status = "playing", !.startTime = t,
                   !.steps = 0, !.puzzle = pz]

\* startGame: the body of the players.forEach that resets a player
resetPlayer(player, t, pz) ==
    [player EXCEPT !.status = "playing", !.startTime = t, !.time = 0,
                   !.steps = 0, !.finishTime = Null, !.puzzle = pz]

\* variant of rotateAccepted: the status test is missing
rotateAcceptedAnyStatus(players, playerId) == playerId \in DOMAIN players

\* rotate: if (player && player.status === 'playing')
rotateAccepted(players, playerId) ==
    /\ playerId \in DOMAIN players
    /\ players[playerId].status = "playing"

\* rotate: the cell update and the step count
rotatePlayer(player, tileIndex) ==
    [player EXCEPT !.puzzle = ArraySet(@, tileIndex, Rotated(@, tileIndex)),
                   !.steps = @ + 1]

\* variant of finishPlayer: the wrong status literal is assigned
finishPlayerAsJoined(player, t) ==
    [player EXCEPT !.status = "joined", !.finishTime = t,
                   !.time = t - player.startTime]

\* rotate: the completion branch's assignments
finishPlayer(player, t) ==
    [player EXCEPT !.status = "finished", !.finishTime = t,
                   !.time = t - player.startTime]

\* variant of allFinished: only players that are Playing hold the round open
allFinishedOrJoined(players) == \A q \in DOMAIN players : players[q].status # "playing"

\* rotate: Array.from(players.values()).every(p => p.status === 'finished')
allFinished(players) == \A q \in DOMAIN players : players[q].status = "finished"

\* variant of statusAfterRotate: the status assignment is missing
statusAfterRotateKept(status, ended) == status

\* rotate: if (allFinished) gameState.status = 'finished'
statusAfterRotate(status, ended) == IF ended THEN "finished" ELSE status

\* the playerFinished message of a player that has just finished
playerFinished(player) ==
    [type |-> "playerFinished", to |-> {}, playerId |-> player.id,
     playerName |-> player.name, time |-> player.time, steps |-> player.steps]

\* variant of rotateSends: gameEnd is broadcast before playerFinished
rotateSendsEndFirst(cl, player, done, ended, ps) ==
    (IF ended THEN << broadcast(cl, [type |-> "gameEnd", to |-> {}]) >> ELSE <<>>)
    \o (IF done THEN << broadcast(cl, playerFinished(player)) >> ELSE <<>>)
    \o << broadcastLeaderboard(cl, ps) >>

\* rotate: the broadcasts of an accepted rotate, in the order they are made
rotateSends(cl, player, done, ended, ps) ==
    (IF done THEN << broadcast(cl, playerFinished(player)) >> ELSE <<>>)
    \o (IF ended THEN << broadcast(cl, [type |-> "gameEnd", to |-> {}]) >> ELSE <<>>)
    \o << broadcastLeaderboard(cl, ps) >>

RECURSIVE SumSteps(_, _)
SumSteps(players, S) ==
    IF S = {} THEN 0
    ELSE LET q == CHOOSE x \in S : TRUE
         IN  players[q].steps + SumSteps(players, S \ {q})

\* the steps counters of the registered players, added up
TotalSteps(players) == SumSteps(players, DOMAIN players)

\* history helpers
StatusOf(players) == [q \in DOMAIN players |-> players[q].status]
Count(msgs, type) == Cardinality({i \in 1..Len(msgs) : msgs[i].type = type})

\* the values shufflePuzzle() can return
Shuffles == { shufflePuzzle(d, f) : d \in Draws, f \in ForcedTiles }

\* resetGame: the assignments that clear the session
resetState(gs) ==
    [gs EXCEPT !.status = "waiting", !.image = NoUrl, !.imageUrl = NoUrl,
               !.players = NoPlayers, !.gameStartTime = Null]

Restrict(f, S) == [x \in S |-> f[x]]
Extend(f, k, v) == [x \in (DOMAIN f) \cup {k} |-> IF x = k THEN v ELSE f[x]]
\* variant of Remove: every key is removed
RemoveAll(f, k) == [x \in {} |-> f[x]]

Remove(f, k) == [x \in (DOMAIN f) \ {k} |-> f[x]]

\* An exception no handler catches ends the process: the session, the
\* registry and every connection are gone.
Crashed ==
    /\ alive' = FALSE
    /\ gameState' = initialGameState
    /\ clients' = NoPlayers
    /\ out' = <<>>
    /\ roundPuzzle' = NoPlayers
    /\ rotations' = NoPlayers
    /\ gameEnds' = 0
    /\ prevStatus' = NoPlayers
    /\ UNCHANGED <<nextId, now>>

\* --------------------------------------------------------------- actions
\* wss.on('connection') for a URL that contains 'player'
ConnectPlayer(name, pz) ==
    /\ alive
    /\ nextId <= MaxConns
    /\ LET id == nextId
           cl == Extend(clients, id, [playerId |-> id, readyState |-> "OPEN"])
           ps == Extend(Players, id, newPlayer(id, name, pz))
       IN  /\ clients' = cl
           /\ gameState' = [gameState EXCEPT !.players = ps]
           /\ out' = << [type |-> "init", to |-> {id}, playerId |-> id,
                         playerName |-> name, imageUrl |-> gameState.imageUrl,
                         puzzle |-> jsonArray(ps[id].puzzle),
                         gameStatus |-> gameState.status],
                        broadcastLeaderboard(cl, ps) >>
           /\ roundPuzzle' = Extend(roundPuzzle, id, pz.elems)
           /\ rotations' = Extend(rotations, id, [i \in Tiles |-> 0])
           /\ prevStatus' = Extend(StatusOf(Players), id, "none")
    /\ nextId' = nextId + 1
    /\ last' = Event("connection", nextId)
    /\ UNCHANGED <<now, alive, gameEnds>>

\* wss.on('connection') for any other URL (an observer or admin view)
ConnectObserver ==
    /\ alive
    /\ nextId <= MaxConns
    /\ clients' = Extend(clients, nextId,
                         [playerId |-> NullId, readyState |-> "OPEN"])
    /\ nextId' = nextId + 1
    /\ out' = <<>>
    /\ last' = Event("connection", nextId)
    /\ prevStatus' = StatusOf(Players)
    /\ UNCHANGED <<gameState, now, alive, roundPuzzle, rotations, gameEnds>>

\* case 'uploadImage'
UploadImage(imageData, filename) ==
    /\ alive
    /\ Open(clients) # {}
    /\ gameState' = [gameState EXCEPT !.image = <<imageData>>,
                                      !.imageUrl = <<"/uploads/", filename>>]
    /\ out' = << broadcast(clients, [type |-> "imageUpdate", to |-> {},
                                     imageUrl |-> <<"/uploads/", filename>>]) >>
    /\ last' = Event("uploadImage", NullId)
    /\ prevStatus' = StatusOf(Players)
    /\ UNCHANGED <<clients, nextId, now, alive, roundPuzzle, rotations, gameEnds>>

\* case 'startGame'; pz gives each player the puzzle shufflePuzzle() returns
StartGame(pz) ==
    /\ alive
    /\ Open(clients) # {}
    /\ IF startAccepted(gameState)
       THEN LET ps == [q \in Ids |-> resetPlayer(Players[q], now, pz[q])]
                order == SeqOf(Ids)
            IN  /\ gameState' = [gameState EXCEPT !.status = "playing",
                                                  !.gameStartTime = now,
                                                  !.players = ps]
                /\ out' = << broadcast(clients, [type |-> "gameStart", to |-> {},
                                                 startTime |-> now]) >>
                          \o [i \in 1..Len(order) |->
                                sendToPlayer(clients, ps[order[i]].id,
                                    [type |-> "puzzleUpdate", to |-> {},
                                     puzzle |-> jsonArray(ps[order[i]].puzzle)])]
                          \o << broadcastLeaderboard(clients, ps) >>
                /\ roundPuzzle' = [q \in Ids |-> pz[q].elems]
                /\ rotations' = [q \in Ids |-> [i \in Tiles |-> 0]]
                /\ gameEnds' = 0
       ELSE /\ out' = <<>>
            /\ UNCHANGED <<gameState, roundPuzzle, rotations, gameEnds>>
    /\ last' = Event("startGame", NullId)
    /\ prevStatus' = StatusOf(Players)
    /\ UNCHANGED <<clients, nextId, now, alive>>

\* case 'rotate'
Rotate(playerId, tileIndex) ==
    /\ alive
    /\ Open(clients) # {}
    /\ IF rotateAccepted(Players, playerId)
       THEN /\ TotalSteps(Players) < MaxSteps
            /\ LET moved == rotatePlayer(Players[playerId], tileIndex)
                   done  == arraysEqual(moved.puzzle, correctRotation)
                   after == IF done THEN finishPlayer(moved, now) ELSE moved
                   ps    == [Players EXCEPT ![playerId] = after]
                   ended == done /\ allFinished(ps)
               IN  /\ gameState' = [gameState EXCEPT
                          !.players = ps,
                          !.status = statusAfterRotate(@, ended)]
                   /\ out' = rotateSends(clients, after, done, ended, ps)
            /\ gameEnds' = gameEnds + Count(out', "gameEnd")
            /\ rotations' = IF tileIndex \in Tiles
                            THEN [rotations EXCEPT ![playerId][tileIndex] = @ + 1]
                            ELSE rotations
       ELSE /\ out' = <<>>
            /\ UNCHANGED <<gameState, rotations, gameEnds>>
    /\ last' = Event("rotate", playerId)
    /\ prevStatus' = StatusOf(Players)
    /\ UNCHANGED <<clients, nextId, now, alive, roundPuzzle>>

\* case 'resetGame'; fsOk: readdirSync and every unlinkSync return normally
ResetGame(fsOk) ==
    /\ alive
    /\ Open(clients) # {}
    /\ last' = Event("resetGame", NullId)
    /\ IF fsOk
       THEN LET gs == resetState(gameState)
            IN  /\ gameState' = gs
                /\ out' = << broadcast(clients, [type |-> "gameReset", to |-> {}]),
                             broadcastLeaderboard(clients, gs.players) >>
                /\ roundPuzzle' = Restrict(roundPuzzle, DOMAIN gs.players)
                /\ rotations' = Restrict(rotations, DOMAIN gs.players)
                /\ gameEnds' = 0
                /\ prevStatus' = StatusOf(Players)
                /\ UNCHANGED <<clients, nextId, now, alive>>
       ELSE Crashed

\* a message whose type no case matches
OtherMessage ==
    /\ alive
    /\ Open(clients) # {}
    /\ out' = <<>>
    /\ last' = Event("other", NullId)
    /\ prevStatus' = StatusOf(Players)
    /\ UNCHANGED <<gameState, clients, nextId, now, alive,
                   roundPuzzle, rotations, gameEnds>>

\* a message JSON.parse rejects, or one that parses to null
BadMessage ==
    /\ alive
    /\ Open(clients) # {}
    /\ last' = Event("malformed", NullId)
    /\ Crashed

\* ws.on('close') of connection c (wss has dropped c from wss.clients)
Close(c) ==
    /\ alive
    /\ c \in DOMAIN clients
    /\ LET cl == Remove(clients, c)
       IN  /\ clients' = cl
           /\ IF c \in Ids
              THEN /\ gameState' = [gameState EXCEPT !.players = Remove(@, c)]
                   /\ out' = << broadcastLeaderboard(cl, Remove(Players, c)) >>
                   /\ roundPuzzle' = Remove(roundPuzzle, c)
                   /\ rotations' = Remove(rotations, c)
              ELSE /\ out' = <<>>
                   /\ UNCHANGED <<gameState, roundPuzzle, rotations>>
    /\ last' = Event("close", c)
    /\ prevStatus' = Remove(StatusOf(Players), c)
    /\ UNCHANGED <<nextId, now, alive, gameEnds>>

\* the clock advances between two handlers
Tick ==
    /\ alive
    /\ now < MaxTime
    /\ now' = now + 1
    /\ out' = <<>>
    /\ last' = Event("tick", NullId)
    /\ prevStatus' = StatusOf(Players)
    /\ UNCHANGED <<gameState, clients, nextId, alive, roundPuzzle, rotations, gameEnds>>

PlayerIdInputs == 0..MaxConns

Next ==
    \/ \E name \in Names, pz \in Shuffles : ConnectPlayer(name, pz)
    \/ ConnectObserver
    \/ \E f \in Filenames : UploadImage("data", f)
    \/ \E pz \in [Ids -> Shuffles] : StartGame(pz)
    \/ \E p \in PlayerIdInputs, k \in TileInputs : Rotate(p, k)
    \/ \E ok \in BOOLEAN : ResetGame(ok)
    \/ OtherMessage
    \/ BadMessage
    \/ \E c \in DOMAIN clients : Close(c)
    \/ Tick

Spec == Init /\ [][Next]_vars

\* ------------------------------------------- the leaderboard on its own
\* broadcastLeaderboard() applied to registries of up to MaxBoard players in
\* a round under way: each player is Finished with a time of BoardTimes,
\* Playing with a steps count of BoardSteps, or Joined.
BoardPlayers ==
    { [status |-> "finished", time |-> t, steps |-> 5] : t \in BoardTimes }
    \cup { [status |-> "playing", time |-> 0, steps |-> k] : k \in BoardSteps }
    \cup { [status |-> "joined", time |-> 0, steps |-> 0] }

boardPlayer(id, e) ==
    [id |-> id, name |-> "name0", status |-> e.status, time |-> e.time,
     steps |-> e.steps,
     startTime |-> IF e.status = "joined" THEN Null ELSE 0,
     finishTime |-> IF e.status = "finished" THEN e.time ELSE Null,
     puzzle |-> IF e.status = "finished" THEN correctRotation
                ELSE MkArray([i \in Tiles |-> IF i = 8 THEN 1 ELSE 0])]

InitLb ==
    \E n \in 0..MaxBoard :
        \E e \in [1..n -> BoardPlayers] :
            /\ gameState = [status |-> "playing", image |-> <<"data">>,
                            imageUrl |-> <<"/uploads/", "a.png">>,
                            players |-> [p \in 1..n |-> boardPlayer(p, e[p])],
                            gameStartTime |-> 0]
            /\ clients = [c \in 1..n |-> [playerId |-> c, readyState |-> "OPEN"]]
            /\ nextId = n + 1
            /\ now = 0
            /\ alive = TRUE
            /\ out = <<>>
            /\ roundPuzzle = [p \in 1..n |-> [i \in Tiles |-> IF i = 8 THEN 1 ELSE 0]]
            /\ rotations = [p \in 1..n |-> [i \in Tiles |->
                               IF i = 8 /\ e[p].status = "finished" THEN 3 ELSE 0]]
            /\ gameEnds = 0
            /\ last = Event("none", NullId)
            /\ prevStatus = [p \in 1..n |-> e[p].status]

\* broadcastLeaderboard() called on the registry as it stands
BroadcastLeaderboard ==
    /\ out' = << broadcastLeaderboard(clients, Players) >>
    /\ last' = Event("leaderboard", NullId)
    /\ prevStatus' = StatusOf(Players)
    /\ UNCHANGED <<gameState, clients, nextId, now, alive,
                   roundPuzzle, rotations, gameEnds>>

NextLb ==
    \/ BroadcastLeaderboard
    \/ \E c \in DOMAIN clients : Close(c)

SpecLb == InitLb /\ [][NextLb]_vars


\* ---------------------------------------------------------------- claims
Puzzle(p) == Players[p].puzzle
Cell(p, i) == Players[p].puzzle.elems[i]

\* C1: in every reachable state every registered player's puzzle has exactly
\* 9 elements and each element is one of 0, 1, 2, 3.
C1_PuzzleNineCellsInRange ==
    \A p \in Ids :
        /\ Puzzle(p).length = 9
        /\ DOMAIN Puzzle(p).elems = Tiles
        /\ \A i \in Tiles : Cell(p, i) \in 0..3

\* C2: a rotate for an existing Playing player whose tileIndex is outside
\* 0..8 is ignored: that player's record (puzzle, stepCount, status) and the
\* session are unchanged.
C2_BadTileIndexIgnored ==
    [][\A p \in PlayerIdInputs, k \in TileInputs \ Tiles :
          ( /\ p \in Ids
            /\ Players[p].status = "playing"
            /\ Rotate(p, k) )
          => gameState' = gameState]_vars

\* C3: a rotate naming an unknown player id, a rotate naming a player whose
\* status is Joined or Finished, and a startGame while imageUrl is null each
\* leave the session and every player record unchanged and send nothing.
C3_InvalidOperationIsNoOp ==
    [][( \/ /\ last'.type = "rotate"
            /\ \/ last'.playerId \notin Ids
               \/ Players[last'.playerId].status \in {"joined", "finished"}
         \/ /\ last'.type = "startGame"
            /\ gameState.imageUrl = NoUrl )
       => /\ gameState' = gameState
          /\ out' = <<>>]_vars

\* C3 witness: a rotate naming a Finished player has just been ignored
C3_Witness ==
    /\ last.type = "rotate"
    /\ last.playerId \in Ids
    /\ Players[last.playerId].status = "finished"
    /\ prevStatus[last.playerId] = "finished"
    /\ out = <<>>

\* the clockwise successor of a rotation value
Clockwise(v) == CASE v = 0 -> 1 [] v = 1 -> 2 [] v = 2 -> 3 [] v = 3 -> 0

\* rotations counts the accepted rotates per addressed cell, so a step that
\* raises rotations[p][k] is an accepted rotate(p, k) with k in 0..8
C4_RotateStep ==
    \A p \in Ids \cap DOMAIN rotations', k \in Tiles :
        ( /\ last'.type = "rotate"
          /\ last'.playerId = p
          /\ rotations'[p][k] = rotations[p][k] + 1 )
        => /\ Players[p].status = "playing"
           /\ DOMAIN gameState'.players = Ids
           /\ LET a == Players[p].puzzle
                  b == gameState'.players[p].puzzle
              IN  /\ b.length = a.length
                  /\ DOMAIN b.elems = DOMAIN a.elems
                  /\ b.elems[k] = Clockwise(a.elems[k])
                  /\ \A i \in DOMAIN a.elems \ {k} : b.elems[i] = a.elems[i]
           /\ gameState'.players[p].steps = Players[p].steps + 1
           /\ \A q \in Ids \ {p} : gameState'.players[q] = Players[q]

C4_CellsFollowCount ==
    \A p \in Ids, i \in Tiles :
        Cell(p, i) = (roundPuzzle[p][i] + rotations[p][i]) % 4

C5_FinishedIffAllZero ==
    \A p \in Ids :
        (Players[p].status = "finished")
            <=> (\A i \in Tiles : i \in DOMAIN Puzzle(p).elems /\ Cell(p, i) = 0)


Rank(st) == CASE st = "joined" -> 0 [] st = "playing" -> 1 [] st = "finished" -> 2

IsAcceptedStart == last'.type = "startGame" /\ gameState.imageUrl # NoUrl

\* C6: over operations other than resetGame, no step changes a registered
\* player's status from Finished to Playing or Joined, or from Playing to
\* Joined.
C6_StatusNeverRegresses ==
    [][last'.type # "resetGame"
       => \A p \in Ids \cap DOMAIN gameState'.players :
              Rank(gameState'.players[p].status) >= Rank(Players[p].status)]_vars

\* C6 as amended: over operations other than resetGame, no step changes a
\* registered player's status to Joined, and the only step that changes it
\* from Finished to Playing is an accepted startGame.
C6_StatusRegressesOnlyOnStart ==
    [][last'.type # "resetGame"
       => \A p \in Ids \cap DOMAIN gameState'.players :
              Rank(gameState'.players[p].status) < Rank(Players[p].status)
              => /\ IsAcceptedStart
                 /\ Players[p].status = "finished"
                 /\ gameState'.players[p].status = "playing"]_vars

\* C6 witness: an accepted startGame has put a Finished player back to Playing
C6_Witness ==
    /\ last.type = "startGame"
    /\ \E p \in Ids : prevStatus[p] = "finished" /\ Players[p].status = "playing"

IsCompletingRotate ==
    /\ last'.type = "rotate"
    /\ last'.playerId \in Ids
    /\ Players[last'.playerId].status = "playing"
    /\ last'.playerId \in DOMAIN gameState'.players
    /\ gameState'.players[last'.playerId].status = "finished"

BecomesFinished ==
    gameState'.status = "finished" /\ gameState.status # "finished"

\* C7: the session status changes to Finished in a step if and only if the
\* step is an accepted rotate that completes the rotating player's puzzle and
\* after it the registry is non-empty and every registered player is Finished.
C7_SessionFinishedIffLastCompletion ==
    [][BecomesFinished
       <=> /\ IsCompletingRotate
           /\ DOMAIN gameState'.players # {}
           /\ \A q \in DOMAIN gameState'.players :
                  gameState'.players[q].status = "finished"]_vars

\* C7 witness: two players are registered, both Finished, and the rotate that
\* finished the second one has set the session status to Finished
C7_Witness ==
    /\ last.type = "rotate"
    /\ gameState.status = "finished"
    /\ Cardinality(Ids) = 2
    /\ \A q \in Ids : Players[q].status = "finished"
    /\ prevStatus[last.playerId] = "playing"

\* C8: gameEnd is broadcast exactly once, in the step in which the session
\* status becomes Finished, and at most once between an accepted startGame
\* and the next accepted startGame or resetGame.
C8_GameEndOncePerRound ==
    /\ [][/\ BecomesFinished => Count(out', "gameEnd") = 1
          /\ ~BecomesFinished => Count(out', "gameEnd") = 0]_vars
    /\ [](gameEnds <= 1)
    /\ [](gameState.status = "finished" => gameEnds = 1)

\* C8 witness: the round has ended and its one gameEnd is among the sends of
\* the rotate that ended it
C8_Witness ==
    /\ last.type = "rotate"
    /\ gameState.status = "finished"
    /\ gameEnds = 1
    /\ Count(out, "gameEnd") = 1

FreshPuzzle(a) ==
    /\ a.length = 9
    /\ DOMAIN a.elems = Tiles
    /\ \A i \in Tiles : a.elems[i] \in 0..3
    /\ \E i \in Tiles : a.elems[i] # 0

\* C9: an accepted startGame, from any session status, sets the session
\* status to Playing and gives every registered player, whatever its status
\* was, status Playing, steps 0, time 0, finishTime null and a fresh puzzle.
C9_StartResetsEveryPlayer ==
    [][IsAcceptedStart
       => /\ gameState'.status = "playing"
          /\ DOMAIN gameState'.players = Ids
          /\ \A p \in Ids :
                LET q == gameState'.players[p]
                IN  /\ q.status = "playing"
                    /\ q.steps = 0
                    /\ q.time = 0
                    /\ q.finishTime = Null
                    /\ FreshPuzzle(q.puzzle)
                    /\ roundPuzzle'[p] = q.puzzle.elems]_vars

\* C9 witness: a startGame accepted after a round has restarted a player that
\* was Finished and one that was still Joined
C9_Witness ==
    /\ last.type = "startGame"
    /\ gameState.status = "playing"
    /\ \E p, q \in Ids :
          /\ prevStatus[p] = "finished"
          /\ prevStatus[q] = "joined"
          /\ Players[p].status = "playing" /\ Players[p].steps = 0
          /\ Players[q].status = "playing"

BoundTo(p) == {c \in DOMAIN clients : clients[c].playerId = p}

\* C10: the sends of an accepted startGame are one gameStart broadcast, then
\* exactly one puzzleUpdate per registered player, then one leaderboard
\* broadcast; a puzzleUpdate carries that player's new puzzle and reaches only
\* open connections bound to that player, never an observer or another player.
C10_StartSendsInOrder ==
    [][IsAcceptedStart
       => LET n == Cardinality(Ids)
          IN  /\ Len(out') = n + 2
              /\ out'[1].type = "gameStart"
              /\ out'[1].to = DOMAIN clients
              /\ out'[n + 2].type = "leaderboard"
              /\ out'[n + 2].to = DOMAIN clients
              /\ \A i \in 2..(n + 1) : out'[i].type = "puzzleUpdate"
              /\ \A p \in Ids :
                    \E i \in 2..(n + 1) :
                       /\ out'[i].to = BoundTo(p)
                       /\ out'[i].puzzle = [k \in Tiles |->
                                               gameState'.players[p].puzzle.elems[k]]
                       /\ \A j \in 2..(n + 1) :
                             j # i => out'[j].to \cap BoundTo(p) = {}
              /\ \A i \in 2..(n + 1) : \A c \in out'[i].to :
                    clients[c].playerId # NullId]_vars

\* C10 witness: an accepted startGame with two players registered has sent
\* each of them its own puzzle, the two puzzles being different
C10_Witness ==
    /\ last.type = "startGame"
    /\ Len(out) = 4
    /\ out[2].type = "puzzleUpdate" /\ out[3].type = "puzzleUpdate"
    /\ out[2].to # out[3].to
    /\ out[2].puzzle # out[3].puzzle

\* C11: after a resetGame, from any prior state, the registry is empty,
\* imageUrl is null, gameStartTime is null and the status is Waiting, so no
\* player registered before is present, and gameReset and then a leaderboard
\* with an empty player list have been broadcast.
C11_ResetClearsSession ==
    [][last'.type = "resetGame"
       => /\ gameState'.players = NoPlayers
          /\ gameState'.imageUrl = NoUrl
          /\ gameState'.gameStartTime = Null
          /\ gameState'.status = "waiting"
          /\ Len(out') = 2
          /\ out'[1].type = "gameReset"
          /\ out'[1].to = DOMAIN clients
          /\ out'[2].type = "leaderboard"
          /\ out'[2].players = <<>>
          /\ out'[2].to = DOMAIN clients]_vars

\* C11 where the handler runs to its end (no file operation raises): the
\* session is cleared and the two broadcasts are made
C11_ResetClearsSessionOnReturn ==
    [][(last'.type = "resetGame" /\ alive')
       => /\ gameState'.players = NoPlayers
          /\ gameState'.imageUrl = NoUrl
          /\ gameState'.gameStartTime = Null
          /\ gameState'.status = "waiting"
          /\ Len(out') = 2
          /\ out'[1].type = "gameReset"
          /\ out'[1].to = DOMAIN clients
          /\ out'[2].type = "leaderboard"
          /\ out'[2].players = <<>>
          /\ out'[2].to = DOMAIN clients]_vars

\* C11 witness: a resetGame has cleared a session whose round was over, with
\* a Finished player and a Joined player registered
C11_Witness ==
    /\ last.type = "resetGame"
    /\ alive
    /\ \E p, q \in DOMAIN prevStatus :
          prevStatus[p] = "finished" /\ prevStatus[q] = "joined"
    /\ Ids = {}
    /\ gameState.status = "waiting"
    /\ gameState.imageUrl = NoUrl
    /\ Len(out) = 2

\* C12: a resetGame during which listing or deleting a stored file raises an
\* error still leaves the session cleared and still broadcasts gameReset and
\* the empty leaderboard to the open connections.
C12_ResetSurvivesDeletionFailure ==
    [][last'.type = "resetGame"
       => /\ gameState' = initialGameState
          /\ clients' = clients
          /\ Len(out') = 2
          /\ out'[1].type = "gameReset"
          /\ out'[1].to = DOMAIN clients
          /\ out'[2].type = "leaderboard"
          /\ out'[2].players = <<>>]_vars

\* C13: a message that cannot be parsed is dropped: the session and every
\* player record are unchanged, the connections stay, and the server goes on
\* handling messages.
C13_MalformedMessageIsolated ==
    [][last'.type = "malformed"
       => /\ gameState' = gameState
          /\ clients' = clients
          /\ alive']_vars

IsAcceptedRotate ==
    /\ last'.type = "rotate"
    /\ last'.playerId \in Ids
    /\ Players[last'.playerId].status = "playing"

\* C14: the sends of an accepted rotate end with the leaderboard broadcast;
\* when the rotate finishes the player, a playerFinished broadcast carrying its
\* id, name, time and steps comes first; when every registered player is then
\* Finished, gameEnd comes right after playerFinished, the session status is
\* Finished, and the leaderboard is third and last.
C14_RotateSendsInOrder ==
    [][IsAcceptedRotate
       => LET p == last'.playerId
              q == gameState'.players[p]
              n == Len(out')
              completes == q.status = "finished"
              allDone == \A x \in DOMAIN gameState'.players :
                             gameState'.players[x].status = "finished"
          IN  /\ n >= 1
              /\ out'[n].type = "leaderboard"
              /\ out'[n].to = DOMAIN clients
              /\ out'[n].players = leaderboard(gameState'.players)
              /\ \A i \in 1..(n - 1) : out'[i].type # "leaderboard"
              /\ ~completes => n = 1
              /\ completes
                 => /\ out'[1].type = "playerFinished"
                    /\ out'[1].to = DOMAIN clients
                    /\ out'[1].playerId = p
                    /\ out'[1].playerName = q.name
                    /\ out'[1].time = q.time
                    /\ out'[1].steps = q.steps
              /\ (completes /\ allDone)
                 => /\ n = 3
                    /\ out'[2].type = "gameEnd"
                    /\ out'[2].to = DOMAIN clients
                    /\ gameState'.status = "finished"
              /\ (completes /\ ~allDone) => n = 2]_vars

\* C14 witness: with two players registered, the rotate that finished the
\* second one has sent playerFinished, gameEnd and the leaderboard, in that order
C14_Witness ==
    /\ last.type = "rotate"
    /\ Cardinality(Ids) = 2
    /\ gameState.status = "finished"
    /\ Len(out) = 3
    /\ out[1].type = "playerFinished"
    /\ out[1].playerId = last.playerId
    /\ out[1].steps = 1
    /\ out[2].type = "gameEnd"
    /\ out[3].type = "leaderboard"
    /\ Len(out[3].players) = 2

\* C15: every leaderboard sent lists each registered player exactly once,
\* every Finished player before every player that is not Finished, Finished
\* players by ascending time, the others by ascending steps, and players of
\* one tier with equal keys in registry iteration order (ascending id here).
C15_LeaderboardOrder ==
    \A i \in 1..Len(out) :
        out[i].type = "leaderboard"
        => LET b == out[i].players
               n == Len(b)
           IN  /\ n = Cardinality(Ids)
               /\ \A p \in Ids :
                     \E j \in 1..n :
                        /\ b[j].id = p
                        /\ b[j].status = Players[p].status
                        /\ b[j].time = Players[p].time
                        /\ b[j].steps = Players[p].steps
               /\ \A j, k \in 1..n :
                     j < k
                     => LET fj == b[j].status = "finished"
                            fk == b[k].status = "finished"
                        IN  /\ fk => fj
                            /\ (fj /\ fk) => b[j].time <= b[k].time
                            /\ (~fj /\ ~fk) => b[j].steps <= b[k].steps
                            /\ (fj /\ fk /\ b[j].time = b[k].time)
                               => b[j].id < b[k].id
                            /\ (~fj /\ ~fk /\ b[j].steps = b[k].steps)
                               => b[j].id < b[k].id

\* C15 witness: the registry holds A (1, Finished, 120), B (2, Finished, 80),
\* C (3, Playing, 5 steps), D (4, Playing, 2 steps) and the leaderboard sent
\* lists them as B, A, D, C
C15_Witness ==
    /\ Ids = 1..4
    /\ Players[1].status = "finished" /\ Players[1].time = 120
    /\ Players[2].status = "finished" /\ Players[2].time = 80
    /\ Players[3].status = "playing" /\ Players[3].steps = 5
    /\ Players[4].status = "playing" /\ Players[4].steps = 2
    /\ Len(out) = 1
    /\ out[1].type = "leaderboard"
    /\ [j \in 1..4 |-> out[1].players[j].id] = <<2, 1, 4, 3>>

NotSolved(a) == \E i \in Tiles : i \in DOMAIN a.elems /\ a.elems[i] # 0

ForcedPuzzle == [i \in Tiles |-> IF i = 8 THEN 1 ELSE 0]

\* C16: shufflePuzzle never returns the all-zero configuration: every value
\* it can return, the puzzle of every Joined player, the puzzle given at
\* connection and the puzzle every player holds right after an accepted
\* startGame have at least one non-zero cell.
C16_NeverGeneratedSolved ==
    /\ [](\A pz \in Shuffles : NotSolved(pz) /\ ~arraysEqual(pz, correctRotation))
    /\ [](\A p \in Ids : Players[p].status = "joined" => NotSolved(Puzzle(p)))
    /\ [][(last'.type = "connection" /\ last'.playerId \in DOMAIN gameState'.players)
          => NotSolved(gameState'.players[last'.playerId].puzzle)]_vars
    /\ [][IsAcceptedStart
          => \A p \in DOMAIN gameState'.players :
                 /\ NotSolved(gameState'.players[p].puzzle)
                 /\ gameState'.players[p].status = "playing"]_vars

\* C16 witness: the nine draws were all 0 both for a player that has just
\* connected and for one restarted by startGame; each holds the puzzle with
\* the forced cell set to 1
C16_Witness ==
    /\ last.type = "connection"
    /\ last.playerId \in Ids
    /\ Players[last.playerId].status = "joined"
    /\ Puzzle(last.playerId).elems = ForcedPuzzle
    /\ \E q \in Ids :
          /\ Players[q].status = "playing"
          /\ Players[q].steps = 0
          /\ Puzzle(q).elems = ForcedPuzzle

\* C17: a player's elapsed time is defined exactly when it is Finished: a
\* Finished player has a non-null finishTime and time = finishTime - startTime,
\* and no step changes either while it stays Finished; a Joined or Playing
\* player, restarted ones included, has finishTime null and time 0.
C17_TimeDefinedIffFinished ==
    /\ [](\A p \in Ids :
            IF Players[p].status = "finished"
            THEN /\ Players[p].finishTime # Null
                 /\ Players[p].startTime # Null
                 /\ Players[p].time = Players[p].finishTime - Players[p].startTime
            ELSE /\ Players[p].finishTime = Null
                 /\ Players[p].time = 0)
    /\ [][\A p \in Ids \cap DOMAIN gameState'.players :
             ( /\ Players[p].status = "finished"
               /\ gameState'.players[p].status = "finished" )
             => /\ gameState'.players[p].time = Players[p].time
                /\ gameState'.players[p].finishTime = Players[p].finishTime]_vars

\* C17 witness: a player started at 0 and finished at 1 still holds time 1
\* and finishTime 1 after a later rotate naming it
C17_Witness ==
    /\ last.type = "rotate"
    /\ last.playerId \in Ids
    /\ prevStatus[last.playerId] = "finished"
    /\ LET p == Players[last.playerId]
       IN  /\ p.status = "finished"
           /\ p.startTime = 0
           /\ p.finishTime = 1
           /\ p.time = 1

\* C18: the close of a connection whose player is registered removes exactly
\* that player and leaves the session status, imageUrl and every other record
\* unchanged, with no gameEnd; the close of an observer's connection, or of one
\* whose player a reset discarded, changes nothing and sends nothing; a
\* connection accepted later draws an id never used before and, for a player,
\* registers it as Joined with steps 0, time 0 and no finishTime.
C18_CloseRemovesOnlyThatPlayer ==
    /\ [][last'.type = "close"
          => LET c == last'.playerId
             IN  IF c \in Ids
                 THEN /\ DOMAIN gameState'.players = Ids \ {c}
                      /\ \A q \in Ids \ {c} : gameState'.players[q] = Players[q]
                      /\ gameState'.status = gameState.status
                      /\ gameState'.imageUrl = gameState.imageUrl
                      /\ gameState'.gameStartTime = gameState.gameStartTime
                      /\ Count(out', "gameEnd") = 0
                 ELSE /\ gameState' = gameState
                      /\ out' = <<>>]_vars
    /\ [][last'.type = "connection"
          => LET c == last'.playerId
             IN  /\ c = nextId
                 /\ nextId' > nextId
                 /\ c \notin Ids
                 /\ \A q \in Ids : gameState'.players[q] = Players[q]
                 /\ c \in DOMAIN gameState'.players
                    => /\ gameState'.players[c].status = "joined"
                       /\ gameState'.players[c].steps = 0
                       /\ gameState'.players[c].time = 0
                       /\ gameState'.players[c].finishTime = Null]_vars
    /\ [](\A p \in Ids \cup DOMAIN clients : p < nextId)

\* C18 witness: the connection of the last player that was not Finished has
\* closed; the Finished player is still registered and the round still Playing
C18_Witness ==
    /\ last.type = "close"
    /\ last.playerId \notin Ids
    /\ Cardinality(Ids) = 1
    /\ \A q \in Ids : Players[q].status = "finished"
    /\ gameState.status = "playing"
    /\ Len(out) = 1
    /\ out[1].type = "leaderboard"

\* C19: whenever a registered player is Playing the session status is Playing
\* and imageUrl is set; the session status is never 'ready'; and whenever the
\* session status is Playing or Finished imageUrl is set.
C19_PlayingNeedsRoundAndImage ==
    /\ (\E p \in Ids : Players[p].status = "playing")
       => /\ gameState.status = "playing"
          /\ gameState.imageUrl # NoUrl
    /\ gameState.status \in {"waiting", "playing", "finished"}
    /\ gameState.status \in {"playing", "finished"} => gameState.imageUrl # NoUrl

\* C19 witness: a round is under way with one player Playing and one that has
\* already finished, after a rotate
C19_Witness ==
    /\ last.type = "rotate"
    /\ gameState.status = "playing"
    /\ gameState.imageUrl # NoUrl
    /\ \E p, q \in Ids :
          /\ Players[p].status = "playing"
          /\ Players[q].status = "finished"

\* C20: a player that connects, whatever the session status, is registered as
\* Joined; the record of a Joined player that stays registered is changed by
\* no step but an accepted startGame (a rotate naming it changes nothing and
\* sends nothing); and no step that leaves a Joined player registered sets the
\* session status to Finished or sends gameEnd.
C20_LateJoinerStaysJoined ==
    /\ [][(last'.type = "connection" /\ last'.playerId \in DOMAIN gameState'.players)
          => /\ gameState'.players[last'.playerId].status = "joined"
             /\ gameState'.players[last'.playerId].steps = 0
             /\ gameState'.status = gameState.status]_vars
    /\ [][\A p \in Ids \cap DOMAIN gameState'.players :
             (Players[p].status = "joined" /\ ~IsAcceptedStart)
             => gameState'.players[p] = Players[p]]_vars
    /\ [][( /\ last'.type = "rotate"
            /\ last'.playerId \in Ids
            /\ Players[last'.playerId].status = "joined" )
          => /\ gameState' = gameState
             /\ out' = <<>>]_vars
    /\ [][(\E p \in DOMAIN gameState'.players :
              gameState'.players[p].status = "joined")
          => /\ ~BecomesFinished
             /\ Count(out', "gameEnd") = 0]_vars

\* C20 witness: a player joined while the round was under way and is still
\* Joined; the only other player has just finished by a rotate, which sent
\* playerFinished and the leaderboard, and the session is still Playing
C20_Witness ==
    /\ last.type = "rotate"
    /\ Cardinality(Ids) = 2
    /\ last.playerId \in Ids
    /\ prevStatus[last.playerId] = "playing"
    /\ Players[last.playerId].status = "finished"
    /\ \E q \in Ids :
          /\ q > last.playerId
          /\ Players[q].status = "joined"
          /\ Players[q].steps = 0
          /\ Puzzle(q).elems = roundPuzzle[q]
    /\ gameState.status = "playing"
    /\ Len(out) = 2
    /\ out[1].type = "playerFinished"
    /\ out[2].type = "leaderboard"

====
